---- MODULE Spec2Model ----
(***************************************************************************)
(* Timeline reconstruction in analyze_asn_migrations.py: the dns_results   *)
(* observation table, the pivot (Cloudflare) migration query of            *)
(* get_cloudflare_migrations, the pivot split of create_flow_diagram and   *)
(* print_cloudflare_summary, and the windowed detector get_asn_migrations  *)
(* as driven by main.                                                      *)
(* The store can fail: the connect and every query of a script either      *)
(* answer or raise, and the model follows the handlers of the scripts from *)
(* there.  generate_cloudflare_csv.py and analyze_top_ips.py read the same *)
(* table and are modelled as one step each.                                *)
(*                                                                         *)
(* Time is counted in hours.  A row of dns_results is stamped with the     *)
(* clock value at which it was written.  The window function of            *)
(* get_asn_migrations sorts one partition by timestamp; SQLite hands rows  *)
(* of equal timestamp to LEAD in the order its scan of the stored table    *)
(* delivers them, so that order belongs to the store (scan_order) and is   *)
(* the same for every query of one table.  Where the final ORDER BY of a   *)
(* query leaves rows of equal sort key unordered, every permitted order is *)
(* a possible outcome.                                                     *)
(***************************************************************************)
EXTENDS Integers, Sequences, FiniteSets, Bags, TLC

\* ------------------------------------------------------------------ bounds
MaxLog == 3         \* rows written to dns_results by the resolver
MaxTime == 3        \* clock ticks (one tick is 24 hours)

\* --------------------------------------------------------------- constants
CLOUDFLARE_ASN == "AS13335 Cloudflare, Inc."
LIMIT == 50
Windows == <<48, 72>>

Hostnames == {"a.example", "b.example"}
Asns == {CLOUDFLARE_ASN, "AS100 Example", "AS200 Example"}
NULL == "NULL"
NullTime == 0 - 1

VARIABLES
    dns_results,          \* the table: a bag of rows
    scan_order,           \* the table: its rows in the order a scan delivers them
    now,                  \* the clock, datetime('now'), in hours
    pc,                   \* which script is running and how far it got
    hostname_asns,        \* get_cloudflare_migrations: the CTE of that name
    df_migrations,        \* get_cloudflare_migrations: first frame returned
    df_cloudflare_stats,  \* get_cloudflare_migrations: second frame returned
    to_cloudflare,        \* pivot split: rows with to_asn = pivot
    from_cloudflare,      \* pivot split: rows with from_asn = pivot
    hours,                \* main: window of the current loop iteration
    cutoff_time,          \* get_asn_migrations: the cutoff it computed
    migrations_df,        \* main: frame returned by get_asn_migrations
    stdout,               \* lines the running script has printed
    db,                   \* dns_results.db: missing, without the table, or ready
    conn,                 \* connections the running script has opened and closed
    fault,                \* the exception the store raised in the running script
    raised,               \* the exception that left the running script's function
    files,                \* files the running script has written
    df_csv,               \* generate_cloudflare_csv: the frame df it read
    df_time,              \* analyze_top_ips: first frame of get_data
    df_summary            \* analyze_top_ips: second frame of get_data

vars == <<dns_results, scan_order, now, pc, hostname_asns, df_migrations,
          df_cloudflare_stats, to_cloudflare, from_cloudflare, hours, cutoff_time,
          migrations_df, stdout, db, conn, fault, raised, files, df_csv, df_time,
          df_summary>>

\* ----------------------------------------------------------------- helpers
Min(S) == CHOOSE x \in S : \A y \in S : x <= y
Max(S) == CHOOSE x \in S : \A y \in S : x >= y
Range(s) == {s[i] : i \in 1..Len(s)}

\* A bag restricted to the rows that satisfy a WHERE clause.
Where(tbl, P(_)) == [r \in {x \in BagToSet(tbl) : P(x)} |-> tbl[r]]

RECURSIVE SeqOfSet(_)
SeqOfSet(S) ==
    IF S = {} THEN <<>>
    ELSE LET x == CHOOSE y \in S : TRUE IN <<x>> \o SeqOfSet(S \ {x})

RECURSIVE SeqOfBag(_)
SeqOfBag(B) ==
    IF BagToSet(B) = {} THEN <<>>
    ELSE LET x == CHOOSE y \in BagToSet(B) : TRUE
         IN <<x>> \o SeqOfBag(B (-) SetToBag({x}))

\* ORDER BY key DESC over rows[i], i \in I, with keys[i] the sort key of
\* rows[i]: the set of all orders SQL permits (ties in any order).
RECURSIVE OrderByDescFlip(_, _, _)
OrderByDescFlip(keys, rows, I) ==
    IF I = {} THEN {<<>>}
    ELSE LET first == {i \in I : \A j \in I : keys[i] <= keys[j]}
         IN UNION {{<<rows[i]>> \o s : s \in OrderByDescFlip(keys, rows, I \ {i})}
                   : i \in first}

RECURSIVE OrderByDesc(_, _, _)
OrderByDesc(keys, rows, I) ==
    IF I = {} THEN {<<>>}
    ELSE LET first == {i \in I : \A j \in I : keys[i] >= keys[j]}
         IN UNION {{<<rows[i]>> \o s : s \in OrderByDesc(keys, rows, I \ {i})}
                   : i \in first}

\* ------------------------------------------- get_cloudflare_migrations SQL
\* CTE hostname_asns: one row per (hostname, asn) group of the successful
\* rows that have an asn.
HostnameAsnsEndExclusive(tbl) ==
    LET rows == {r \in BagToSet(tbl) : r.success /\ r.asn # NULL}
        grp(h, a) == {r.timestamp : r \in {x \in rows : x.hostname = h /\ x.asn = a}}
    IN {[hostname |-> g[1], asn |-> g[2],
         first_seen |-> Min(grp(g[1], g[2])),
         last_seen |-> Max(grp(g[1], g[2])) + 1]
        : g \in {<<r.hostname, r.asn>> : r \in rows}}

HostnameAsns(tbl) ==
    LET rows == {r \in BagToSet(tbl) : r.success /\ r.asn # NULL}
        grp(h, a) == {r.timestamp : r \in {x \in rows : x.hostname = h /\ x.asn = a}}
    IN {[hostname |-> g[1], asn |-> g[2],
         first_seen |-> Min(grp(g[1], g[2])),
         last_seen |-> Max(grp(g[1], g[2]))]
        : g \in {<<r.hostname, r.asn>> : r \in rows}}

MigrationRow(h1, h2) ==
    [hostname |-> h1.hostname, from_asn |-> h1.asn, to_asn |-> h2.asn,
     start_time |-> h1.first_seen, end_time |-> h1.last_seen,
     next_start_time |-> h2.first_seen, next_end_time |-> h2.last_seen]

\* CTE migrations: the self-join of hostname_asns.
MigrationsNoPivot(ha, pivot) ==
    {MigrationRow(p[1], p[2]) :
        p \in {q \in ha \X ha :
                 /\ q[1].hostname = q[2].hostname
                 /\ q[2].first_seen > q[1].last_seen
                 /\ q[1].asn # q[2].asn}}

MigrationsNotStrict(ha, pivot) ==
    {MigrationRow(p[1], p[2]) :
        p \in {q \in ha \X ha :
                 /\ q[1].hostname = q[2].hostname
                 /\ q[2].first_seen >= q[1].last_seen
                 /\ q[1].asn # q[2].asn
                 /\ (q[1].asn = pivot \/ q[2].asn = pivot)}}

Migrations(ha, pivot) ==
    {MigrationRow(p[1], p[2]) :
        p \in {q \in ha \X ha :
                 /\ q[1].hostname = q[2].hostname
                 /\ q[2].first_seen > q[1].last_seen
                 /\ q[1].asn # q[2].asn
                 /\ (q[1].asn = pivot \/ q[2].asn = pivot)}}

\* SELECT * FROM migrations ORDER BY start_time DESC: the possible frames.
MigrationQuery(tbl, pivot) ==
    LET rows == SeqOfSet(Migrations(HostnameAsns(tbl), pivot))
    IN OrderByDesc([i \in DOMAIN rows |-> rows[i].start_time], rows, DOMAIN rows)

\* cloudflare_stats_query: every row with asn = pivot, successful or not,
\* grouped by (hostname, asn), ORDER BY last_seen DESC.
CloudflareHosts(tbl, pivot) ==
    LET rows == {r \in BagToSet(tbl) : r.asn = pivot}
        cf == Where(tbl, LAMBDA r : r.asn = pivot)
        grp(h) == {r.timestamp : r \in {x \in rows : x.hostname = h}}
    IN {[hostname |-> h, asn |-> pivot,
         first_seen |-> Min(grp(h)), last_seen |-> Max(grp(h)),
         total_occurrences |->
             BagCardinality(Where(cf, LAMBDA r : r.hostname = h))]
        : h \in {r.hostname : r \in rows}}

CloudflareStatsQuery(tbl, pivot) ==
    LET rows == SeqOfSet(CloudflareHosts(tbl, pivot))
    IN OrderByDesc([i \in DOMAIN rows |-> rows[i].last_seen], rows, DOMAIN rows)

\* ------------------------------------------------- the pivot split (pandas)
\* df[df['hostname'].isin(recent_hostnames)]
RecentHostnames(stats) == {stats[i].hostname : i \in 1..Len(stats)}
IsIn(df, names) == SelectSeq(df, LAMBDA m : m.hostname \in names)

ToCloudflareWrongColumn(df) == SelectSeq(df, LAMBDA m : m.from_asn = CLOUDFLARE_ASN)
ToCloudflare(df) == SelectSeq(df, LAMBDA m : m.to_asn = CLOUDFLARE_ASN)
FromCloudflareWrongColumn(df) == SelectSeq(df, LAMBDA m : m.to_asn = CLOUDFLARE_ASN)
FromCloudflare(df) == SelectSeq(df, LAMBDA m : m.from_asn = CLOUDFLARE_ASN)

\* A split done in place on the frame that was passed.
SplitInPlace(passed, rebound) == ToCloudflare(rebound)

\* The frame of the caller after line 105 (and line 368): boolean indexing
\* builds a new frame and the assignment binds the parameter name to it, so
\* the frame that was passed is what it was.
CallerFrame(passed, rebound) == passed

\* ------------------------------------------------- get_asn_migrations SQL
\* The rows the changes CTE reads, as the scan delivers them.
InWindowKeepsNull(s, cutoff) ==
    SelectSeq(s, LAMBDA r : r.timestamp > cutoff)
InWindowNotStrict(s, cutoff) ==
    SelectSeq(s, LAMBDA r : r.timestamp >= cutoff /\ r.asn # NULL)
InWindow(s, cutoff) ==
    SelectSeq(s, LAMBDA r : r.timestamp > cutoff /\ r.asn # NULL)

\* PARTITION BY hostname: the rows of h.
PartitionBy(s, h) == SelectSeq(s, LAMBDA r : r.hostname = h)

\* ORDER BY timestamp within a partition: rows of equal timestamp stay in
\* the order they arrived in.
OrderByTimestamp(s) ==
    LET rank(i) == Cardinality({j \in DOMAIN s :
                        \/ s[j].timestamp < s[i].timestamp
                        \/ s[j].timestamp = s[i].timestamp /\ j < i}) + 1
    IN [k \in DOMAIN s |-> s[CHOOSE i \in DOMAIN s : rank(i) = k]]

\* LEAD(asn) and LEAD(timestamp) over one ordered partition.
LagPartition(s) ==
    [i \in DOMAIN s |->
        [hostname |-> s[i].hostname,
         from_asn |-> s[i].asn,
         start_time |-> s[i].timestamp,
         to_asn |-> IF i > 1 THEN s[i - 1].asn ELSE NULL,
         end_time |-> IF i > 1 THEN s[i - 1].timestamp ELSE NullTime]]
LeadPartition(s) ==
    [i \in DOMAIN s |->
        [hostname |-> s[i].hostname,
         from_asn |-> s[i].asn,
         start_time |-> s[i].timestamp,
         to_asn |-> IF i < Len(s) THEN s[i + 1].asn ELSE NULL,
         end_time |-> IF i < Len(s) THEN s[i + 1].timestamp ELSE NullTime]]

\* CTE changes, partition after partition.
ChangesOnePartition(w, H) == LeadPartition(OrderByTimestamp(w))
RECURSIVE Changes(_, _)
Changes(w, H) ==
    IF H = {} THEN <<>>
    ELSE LET h == CHOOSE x \in H : TRUE
         IN LeadPartition(OrderByTimestamp(PartitionBy(w, h))) \o Changes(w, H \ {h})

\* WHERE to_asn IS NOT NULL AND from_asn != to_asn; a comparison with NULL
\* is not true.
IsMigrationAnyLead(r) == r.to_asn # NULL
IsMigration(r) == r.to_asn # NULL /\ r.from_asn # NULL /\ r.from_asn # r.to_asn

LimitTail(s, n) == SubSeq(s, IF Len(s) < n THEN 1 ELSE Len(s) - n + 1, Len(s))
Limit(s, n) == SubSeq(s, 1, IF Len(s) < n THEN Len(s) ELSE n)

\* A detector for which the order of rows of equal timestamp is not the
\* store's but differs from one call to the next.
Reverse(s) == [i \in 1..Len(s) |-> s[Len(s) + 1 - i]]
AsnMigrationQueryRescan(s, cutoff) ==
    LET rows(t) == SelectSeq(Changes(InWindow(t, cutoff), Hostnames), IsMigration)
        frames(t) == {Limit(o, LIMIT) :
                        o \in OrderByDesc([i \in DOMAIN rows(t) |-> rows(t)[i].start_time],
                                          rows(t), DOMAIN rows(t))}
    IN frames(s) \cup frames(Reverse(s))

\* The frames the final SELECT can return.
AsnMigrationQuery(s, cutoff) ==
    LET rows == SelectSeq(Changes(InWindow(s, cutoff), Hostnames), IsMigration)
    IN {Limit(o, LIMIT) :
          o \in OrderByDesc([i \in DOMAIN rows |-> rows[i].start_time],
                            rows, DOMAIN rows)}

\* ------------------------------------- connection, exceptions, files, lines
\* The connection account of one script run: sqlite3.connect calls that
\* returned a connection, and close calls on it.
NoConn == [opens |-> 0, closes |-> 0]
Connect(c) == [c EXCEPT !.opens = @ + 1]
Close(c) == [c EXCEPT !.closes = @ + 1]

\* What the store can raise: sqlite3.connect raises sqlite3.OperationalError;
\* pandas.read_sql_query wraps whatever the execution raised (no such table,
\* database is locked, disk I/O error) in pandas.errors.DatabaseError, which
\* is not a subclass of sqlite3.Error.
NoError == "none"
ConnectError == "sqlite3.OperationalError"
QueryError == "pandas.errors.DatabaseError"

\* A handler that raised an exception of its own in place of the one caught.
RaiseOther(e) == "RuntimeError"

\* The handlers of get_cloudflare_migrations and of main print the exception
\* and re-raise it with a bare raise: what leaves the function is the
\* exception that was caught.
Reraise(e) == e

\* A file written by a script: the pattern of its name and the values put
\* into it.
File(name, args) == [name |-> name, args |-> args]

\* A printed line: its text as in the source, and the values of its
\* placeholders.
Line(text, args) == [text |-> text, args |-> args]

\* create_migration_timeline: an empty frame is reported, anything else is
\* plotted without a word.
CreateMigrationTimeline(df) ==
    IF Len(df) = 0
      THEN <<Line("No migrations found in the specified time period.", <<>>)>>
      ELSE <<>>

\* analyze_migrations: the lines that say how much was found.
AnalyzeMigrations(df) ==
    IF Len(df) = 0
      THEN <<Line("No migrations found in the specified time period.", <<>>)>>
      ELSE <<Line("ASN Migration Analysis", <<>>)>>

\* The body of main's loop after get_asn_migrations returned df.
ReportWindow(df, h) ==
    IF Len(df) > 0
      THEN CreateMigrationTimeline(df) \o AnalyzeMigrations(df)
      ELSE <<Line("No migrations found in the last {hours} hours.", <<h>>)>>

\* The timeline main has create_migration_timeline save for a window whose
\* frame is not empty.
TimelineFiles(df, h) ==
    IF Len(df) > 0
      THEN {File("asn_migration_timeline_{hours}h_{timestamp}.png", <<h>>)}
      ELSE {}

\* create_ip_flow_diagram: the line that counts what it was given.
CreateIpFlowDiagram(df) ==
    <<Line("DEBUG: Found {len(df_migrations)} migrations among {len(unique_hostnames)} hostnames",
           <<Len(df), Cardinality({df[i].hostname : i \in 1..Len(df)})>>)>>

\* ---------------------------------------------------------- initial states
Timestamps == {24 * t : t \in 1..MaxTime}
Row == [hostname : Hostnames, asn : Asns \cup {NULL},
        timestamp : Timestamps, success : BOOLEAN]

\* A long-running table: each hostname alternates between two networks,
\* one row per hour, na rows for a.example and nb for b.example, the last
\* of them written at clock value t.
BulkRows == LIMIT \div 2 + 2
BulkLog(na, nb, t) ==
    SetToBag(
      {[hostname |-> "a.example",
        asn |-> IF i % 2 = 0 THEN CLOUDFLARE_ASN ELSE "AS100 Example",
        timestamp |-> t - 2 * (i - 1), success |-> TRUE] : i \in 1..na}
      \cup
      {[hostname |-> "b.example",
        asn |-> IF i % 2 = 0 THEN "AS200 Example" ELSE "AS100 Example",
        timestamp |-> t - 2 * (i - 1) - 1, success |-> TRUE] : i \in 1..nb})

NoFrames ==
    /\ pc = "idle"
    /\ hostname_asns = {}
    /\ df_migrations = <<>>
    /\ df_cloudflare_stats = <<>>
    /\ to_cloudflare = <<>>
    /\ from_cloudflare = <<>>
    /\ hours = 0
    /\ cutoff_time = 0
    /\ migrations_df = <<>>
    /\ stdout = <<>>
    /\ conn = NoConn
    /\ fault = NoError
    /\ raised = NoError
    /\ files = {}
    /\ df_csv = <<>>
    /\ df_time = <<>>
    /\ df_summary = <<>>

\* No database file yet, or a new, empty table.
Init ==
    /\ dns_results = EmptyBag
    /\ scan_order = <<>>
    /\ now = 24
    /\ db \in {"missing", "ready"}
    /\ NoFrames

\* A new table, or one that has been filled for a while.
InitBulk ==
    /\ \/ dns_results = EmptyBag /\ now = 24
       \/ \E na, nb \in (BulkRows - 2)..BulkRows :
            dns_results = BulkLog(na, nb, 24 * MaxTime) /\ now = 24 * MaxTime
    /\ scan_order = SeqOfBag(dns_results)
    /\ db = "ready"
    /\ NoFrames

\* ----------------------------------------------------------------- actions
\* The resolver (outside src/) appends one observation, stamped with the
\* clock; a scan of the table delivers it after the rows already there.
\* It creates the database file and the table when they are not there.
Ingest ==
    /\ pc = "idle"
    /\ BagCardinality(dns_results) < MaxLog
    /\ \E h \in Hostnames, a \in Asns \cup {NULL}, ok \in BOOLEAN :
         LET row == [hostname |-> h, asn |-> a, timestamp |-> now, success |-> ok]
         IN /\ dns_results' = dns_results (+) SetToBag({row})
            /\ scan_order' = Append(scan_order, row)
    /\ db' = "ready"
    /\ UNCHANGED <<now, pc, hostname_asns, df_migrations, df_cloudflare_stats, to_cloudflare,
                   from_cloudflare, hours, cutoff_time, migrations_df, stdout, conn,
                   fault, raised, files, df_csv, df_time, df_summary>>

Tick ==
    /\ pc = "idle"
    /\ now < 24 * MaxTime
    /\ now' = now + 24
    /\ UNCHANGED <<dns_results, scan_order, pc, hostname_asns, df_migrations,
                   df_cloudflare_stats, to_cloudflare, from_cloudflare, hours,
                   cutoff_time, migrations_df, stdout, db, conn, fault, raised, files,
                   df_csv, df_time, df_summary>>

\* get_cloudflare_migrations when the store answers all three queries: the
\* connection is opened (line 186) and closed (line 263).
GetCloudflareMigrations ==
    /\ pc = "idle"
    /\ db = "ready"
    /\ hostname_asns' = HostnameAsns(dns_results)
    /\ df_migrations' \in MigrationQuery(dns_results, CLOUDFLARE_ASN)
    /\ df_cloudflare_stats' \in CloudflareStatsQuery(dns_results, CLOUDFLARE_ASN)
    /\ stdout' = <<Line("DEBUG: Starting get_cloudflare_migrations()", <<>>),
                   Line("DEBUG: Found {len(df_migrations)} migrations",
                        <<Len(df_migrations')>>),
                   Line("DEBUG: Found {len(df_cloudflare_stats)} Cloudflare entries",
                        <<Len(df_cloudflare_stats')>>)>>
    /\ conn' = Close(Connect(conn))
    /\ pc' = "cf_loaded"
    /\ UNCHANGED <<dns_results, scan_order, now, to_cloudflare, from_cloudflare, hours,
                   cutoff_time, migrations_df, db, fault, raised, files, df_csv, df_time,
                   df_summary>>

\* The body of create_flow_diagram up to the early return of line 111-112:
\* it splits the frame it was given, or returns at once when the frame is
\* empty.  It prints nothing on either path.
FlowDiagramSplit ==
    IF Len(df_migrations) = 0
      THEN UNCHANGED <<df_migrations, to_cloudflare, from_cloudflare>>
      ELSE LET df == IsIn(df_migrations, RecentHostnames(df_cloudflare_stats))
           IN /\ df_migrations' = CallerFrame(df_migrations, df)
              /\ to_cloudflare' = ToCloudflare(df)
              /\ from_cloudflare' = FromCloudflare(df)

CreateFlowDiagram ==
    /\ pc = "cf_loaded"
    /\ FlowDiagramSplit
    /\ pc' = "flow_diagram"
    /\ UNCHANGED <<dns_results, scan_order, now, hostname_asns,
                   df_cloudflare_stats, hours, cutoff_time, migrations_df, stdout, db,
                   conn, fault, raised, files, df_csv, df_time, df_summary>>

\* create_visualizations: nothing to show, or the two flow diagrams and the
\* activity timeline.
CreateVisualizations ==
    /\ pc = "cf_loaded"
    /\ IF Len(df_migrations) = 0 /\ Len(df_cloudflare_stats) = 0
         THEN /\ stdout' = stdout \o
                   <<Line("DEBUG: Starting create_visualizations()", <<>>),
                     Line("DEBUG: No Cloudflare-related migrations or activity found in the dataset", <<>>)>>
              /\ UNCHANGED <<df_migrations, to_cloudflare, from_cloudflare>>
         ELSE /\ FlowDiagramSplit
              /\ stdout' = stdout \o
                   <<Line("DEBUG: Starting create_visualizations()", <<>>)>> \o
                   CreateIpFlowDiagram(df_migrations) \o
                   (IF Len(df_cloudflare_stats) > 0
                      THEN <<Line("DEBUG: Saved activity timeline", <<>>)>>
                      ELSE <<>>)
    /\ pc' = "visualizations"
    /\ UNCHANGED <<dns_results, scan_order, now, hostname_asns,
                   df_cloudflare_stats, hours, cutoff_time, migrations_df, db, conn,
                   fault, raised, files, df_csv, df_time, df_summary>>

\* print_cloudflare_summary, lines 360-403.
PrintCloudflareSummary ==
    /\ pc = "cf_loaded"
    /\ IF Len(df_migrations) > 0
         THEN LET df == IsIn(df_migrations, RecentHostnames(df_cloudflare_stats))
              IN /\ df_migrations' = CallerFrame(df_migrations, df)
                 /\ to_cloudflare' = ToCloudflare(df)
                 /\ from_cloudflare' = FromCloudflare(df)
         ELSE UNCHANGED <<df_migrations, to_cloudflare, from_cloudflare>>
    /\ stdout' = stdout \o
         <<Line("DEBUG: Starting print_cloudflare_summary()", <<>>)>> \o
         (IF Len(df_migrations) > 0
            THEN <<Line("DEBUG: Found {len(to_cloudflare)} migrations TO Cloudflare",
                        <<Len(to_cloudflare')>>),
                   Line("DEBUG: Found {len(from_cloudflare)} migrations FROM Cloudflare",
                        <<Len(from_cloudflare')>>)>>
            ELSE <<>>) \o
         (IF Len(df_cloudflare_stats) > 0
            THEN <<Line("Total unique hostnames using Cloudflare: {len(df_cloudflare_stats)}",
                        <<Len(df_cloudflare_stats)>>)>>
            ELSE <<>>)
    /\ pc' = "summary"
    /\ UNCHANGED <<dns_results, scan_order, now, hostname_asns,
                   df_cloudflare_stats, hours, cutoff_time, migrations_df, db, conn,
                   fault, raised, files, df_csv, df_time, df_summary>>

\* One iteration of main's loop when the store answers:
\* get_asn_migrations(conn, h) and the report on what it returned.  The
\* first iteration follows the connect of line 505.
GetAsnMigrations ==
    /\ db = "ready"
    /\ \/ pc = "idle" /\ hours' = Windows[1] /\ conn' = Connect(conn)
       \/ pc = "main" /\ hours = Windows[1] /\ hours' = Windows[2] /\ conn' = conn
    /\ cutoff_time' = now - hours'
    /\ migrations_df' \in AsnMigrationQuery(scan_order, now - hours')
    /\ stdout' = (IF pc = "idle"
                    THEN <<Line("DEBUG: Starting script execution", <<>>)>>
                    ELSE stdout) \o
                 <<Line("Analyzing migrations for the last {hours} hours:", <<hours'>>),
                   Line("Found {len(df)} migrations in the specified time period",
                        <<Len(migrations_df')>>)>> \o
                 ReportWindow(migrations_df', hours')
    /\ files' = files \cup TimelineFiles(migrations_df', hours')
    /\ pc' = "main"
    /\ UNCHANGED <<dns_results, scan_order, now, hostname_asns, df_migrations,
                   df_cloudflare_stats, to_cloudflare, from_cloudflare, db, fault,
                   raised, df_csv, df_time, df_summary>>

\* main after its loop: the connection is closed and the run reported
\* complete.
MainReturn ==
    /\ pc = "main"
    /\ hours = Windows[2]
    /\ conn' = Close(conn)
    /\ stdout' = Append(stdout, Line("DEBUG: Script completed successfully", <<>>))
    /\ pc' = "main_done"
    /\ UNCHANGED <<dns_results, scan_order, now, hostname_asns, df_migrations,
                   df_cloudflare_stats, to_cloudflare, from_cloudflare, hours,
                   cutoff_time, migrations_df, db, fault, raised, files, df_csv, df_time,
                   df_summary>>

\* get_cloudflare_migrations when the store fails: at the connect or in one
\* of the three queries.  A connect to a missing file creates it, without
\* the table, and the first query then fails.  The handler of lines 266-268
\* prints and re-raises; nothing is returned, and line 263 is not reached.
GetCloudflareMigrationsRaises ==
    /\ pc = "idle"
    /\ \E site \in {"connect", "migration_query", "cloudflare_stats_query", "asn_query"} :
         LET found_migrations ==
                 Line("DEBUG: Found {len(df_migrations)} migrations",
                      <<Cardinality(Migrations(HostnameAsns(dns_results), CLOUDFLARE_ASN))>>)
             found_stats ==
                 Line("DEBUG: Found {len(df_cloudflare_stats)} Cloudflare entries",
                      <<Cardinality(CloudflareHosts(dns_results, CLOUDFLARE_ASN))>>)
         IN /\ db # "ready" => site \in {"connect", "migration_query"}
            /\ fault' = IF site = "connect" THEN ConnectError ELSE QueryError
            /\ conn' = IF site = "connect" THEN conn ELSE Connect(conn)
            /\ db' = IF db = "missing" /\ site # "connect" THEN "no_table" ELSE db
            /\ stdout' = <<Line("DEBUG: Starting get_cloudflare_migrations()", <<>>)>> \o
                         (IF site \in {"cloudflare_stats_query", "asn_query"}
                            THEN <<found_migrations>> ELSE <<>>) \o
                         (IF site = "asn_query" THEN <<found_stats>> ELSE <<>>) \o
                         <<Line("ERROR in get_cloudflare_migrations: {str(e)}", <<>>)>>
    /\ raised' = Reraise(fault')
    /\ pc' = "raised"
    /\ UNCHANGED <<dns_results, scan_order, now, hostname_asns, df_migrations,
                   df_cloudflare_stats, to_cloudflare, from_cloudflare, hours,
                   cutoff_time, migrations_df, files, df_csv, df_time, df_summary>>

\* main when the store fails: at the connect of line 505, or in a query of
\* get_asn_migrations, in the first iteration of the loop or in the second.
\* The handler of lines 529-531 prints and re-raises; line 526 is not
\* reached.
MainRaises ==
    /\ \E site \in {"connect", "get_asn_migrations"} :
         /\ \/ pc = "idle"
            \/ pc = "main" /\ hours = Windows[1] /\ site = "get_asn_migrations"
         /\ fault' = IF site = "connect" THEN ConnectError ELSE QueryError
         /\ conn' = IF pc = "idle" /\ site # "connect" THEN Connect(conn) ELSE conn
         /\ db' = IF db = "missing" /\ site # "connect" THEN "no_table" ELSE db
         /\ hours' = IF site = "connect" THEN hours
                     ELSE IF pc = "idle" THEN Windows[1] ELSE Windows[2]
         /\ stdout' = (IF pc = "idle"
                         THEN <<Line("DEBUG: Starting script execution", <<>>)>>
                         ELSE stdout) \o
                      (IF site = "connect"
                         THEN <<>>
                         ELSE <<Line("Analyzing migrations for the last {hours} hours:",
                                     <<hours'>>)>>) \o
                      <<Line("ERROR in main: {str(e)}", <<>>)>>
    /\ raised' = Reraise(fault')
    /\ pc' = "raised"
    /\ UNCHANGED <<dns_results, scan_order, now, hostname_asns, df_migrations,
                   df_cloudflare_stats, to_cloudflare, from_cloudflare, cutoff_time,
                   migrations_df, files, df_csv, df_time, df_summary>>

\* ------------------------------------------------ generate_cloudflare_csv.py
\* The Cloudflare rows, latest first.  The model's rows carry no as_name
\* column: the rows whose as_name is LIKE '%Cloudflare%' are taken to be
\* those of the Cloudflare ASN.
CloudflareCsvQuery(tbl) ==
    LET cf == SeqOfBag(Where(tbl, LAMBDA r : r.asn = CLOUDFLARE_ASN))
        rows == [i \in DOMAIN cf |->
                   [hostname |-> cf[i].hostname, asn |-> cf[i].asn,
                    timestamp |-> cf[i].timestamp]]
    IN OrderByDesc([i \in DOMAIN rows |-> rows[i].timestamp], rows, DOMAIN rows)

\* A script that left the connection to the end of the process.
NoFinally(c) == c

\* finally: if 'conn' in locals(): conn.close()
Finally(c) == IF c.opens > 0 THEN Close(c) ELSE c

\* generate_cloudflare_csv from its first line to its return.  Without the
\* file it returns before the try.  Otherwise the connect can fail
\* (sqlite3.Error handler), the query can fail (pandas' DatabaseError, which
\* the Exception handler takes), the frame can be empty, to_csv can fail, or
\* the file is written; the finally clause runs on each of these.
GenerateCloudflareCsv ==
    /\ pc = "idle"
    /\ \E outcome \in {"missing", "connect_error", "query_error", "empty",
                        "to_csv_error", "written"},
          result \in CloudflareCsvQuery(dns_results) :
         LET opened == IF outcome \in {"missing", "connect_error"}
                         THEN conn ELSE Connect(conn)
         IN /\ outcome = "missing" <=> db = "missing"
            /\ outcome \in {"empty", "to_csv_error", "written"} => db = "ready"
            /\ outcome = "empty" => Len(result) = 0
            /\ outcome \in {"to_csv_error", "written"} => Len(result) > 0
            /\ fault' = CASE outcome = "connect_error" -> ConnectError
                           [] outcome = "query_error" -> QueryError
                           [] outcome = "to_csv_error" -> "OSError"
                           [] OTHER -> NoError
            /\ df_csv' = IF outcome \in {"empty", "to_csv_error", "written"}
                           THEN result ELSE <<>>
            /\ files' = IF outcome = "written"
                          THEN {File("cloudflare-{today}.csv", <<>>)} ELSE {}
            /\ stdout' =
                 CASE outcome = "missing" ->
                        <<Line("Error: Database file dns_results.db not found", <<>>)>>
                   [] outcome = "connect_error" ->
                        <<Line("Database error: {e}", <<>>)>>
                   [] outcome \in {"query_error", "to_csv_error"} ->
                        <<Line("Error: {e}", <<>>)>>
                   [] outcome = "empty" ->
                        <<Line("No Cloudflare DNS results found in the database", <<>>)>>
                   [] OTHER ->
                        <<Line("Successfully generated {filename} with {len(df)} records",
                               <<Len(result)>>)>>
            /\ conn' = IF outcome = "missing" THEN conn ELSE Finally(opened)
    /\ pc' = "csv_done"
    /\ UNCHANGED <<dns_results, scan_order, now, hostname_asns, df_migrations,
                   df_cloudflare_stats, to_cloudflare, from_cloudflare, hours,
                   cutoff_time, migrations_df, db, raised, df_time, df_summary>>

\* ------------------------------------------------------- analyze_top_ips.py
\* The model's rows carry no ip_address and no as_name: the groups of both
\* queries are those of the asn column (NULL is a group of its own).
RowsAfter(tbl, cutoff) == Where(tbl, LAMBDA r : r.timestamp > cutoff)

\* time_query: GROUP BY hour, asn; ORDER BY hour, count DESC.
TimeQuery(tbl, cutoff) ==
    LET w == RowsAfter(tbl, cutoff)
        count(t, a) == BagCardinality(Where(w, LAMBDA r : r.timestamp = t /\ r.asn = a))
        rows == SeqOfSet({[hour |-> g[1], asn |-> g[2], count |-> count(g[1], g[2])] :
                            g \in {<<r.timestamp, r.asn>> : r \in BagToSet(w)}})
    IN OrderByDesc([i \in DOMAIN rows |-> rows[i].count - (MaxLog + 1) * rows[i].hour],
                   rows, DOMAIN rows)

\* summary_query: GROUP BY asn; ORDER BY count DESC LIMIT 20.
SummaryQuery(tbl, cutoff) ==
    LET w == RowsAfter(tbl, cutoff)
        count(a) == BagCardinality(Where(w, LAMBDA r : r.asn = a))
        rows == SeqOfSet({[asn |-> a, count |-> count(a),
                           hostnames |-> {r.hostname : r \in {x \in BagToSet(w) : x.asn = a}}] :
                            a \in {r.asn : r \in BagToSet(w)}})
    IN {Limit(o, 20) :
          o \in OrderByDesc([i \in DOMAIN rows |-> rows[i].count], rows, DOMAIN rows)}

\* The handler of get_data (lines 50-52) prints the exception and returns
\* two empty frames: nothing leaves the function.
Swallow(e) == NoError

\* create_visualizations: nothing to plot, or the three charts.
TopIpsFiles(time, summary, h) ==
    IF Len(time) = 0 \/ Len(summary) = 0
      THEN {}
      ELSE {File("top_ips_time_series_{period}_{timestamp}.png", <<h>>),
            File("top_ips_{period}_{timestamp}.png", <<h>>),
            File("top_ips_by_asn_{period}_{timestamp}.png", <<h>>)}

\* main of analyze_top_ips from its first line to its return: get_data for
\* the last 12 or 24 hours, which can fail at the connect or in either
\* query, then the report on what it returned.
TopIpsMain ==
    /\ pc = "idle"
    /\ \E last12 \in BOOLEAN,
          outcome \in {"connect_error", "time_query_error", "summary_query_error", "ok"} :
         /\ db # "ready" => outcome \in {"connect_error", "time_query_error"}
         /\ hours' = IF last12 THEN 12 ELSE 24
         /\ cutoff_time' = IF outcome = "connect_error" THEN cutoff_time ELSE now - hours'
         /\ db' = IF db = "missing" /\ outcome # "connect_error" THEN "no_table" ELSE db
         /\ fault' = CASE outcome = "connect_error" -> ConnectError
                        [] outcome = "ok" -> NoError
                        [] OTHER -> QueryError
         /\ raised' = IF outcome = "ok" THEN NoError ELSE Swallow(fault')
         /\ conn' = CASE outcome = "connect_error" -> conn
                       [] outcome = "ok" -> Close(Connect(conn))
                       [] OTHER -> Connect(conn)
         /\ IF outcome = "ok"
              THEN /\ df_time' \in TimeQuery(dns_results, now - hours')
                   /\ df_summary' \in SummaryQuery(dns_results, now - hours')
              ELSE /\ df_time' = <<>>
                   /\ df_summary' = <<>>
         /\ stdout' =
              (IF outcome = "ok" THEN <<>> ELSE <<Line("Error getting data: {e}", <<>>)>>) \o
              (IF Len(df_summary') = 0
                 THEN <<Line("No data found for the past {hours} hours", <<hours'>>)>>
                 ELSE <<Line("Top IP Addresses (Past {hours} Hours):", <<hours'>>)>>)
         /\ files' = IF Len(df_summary') = 0
                       THEN {}
                       ELSE TopIpsFiles(df_time', df_summary', hours')
    /\ pc' = "top_ips_done"
    /\ UNCHANGED <<dns_results, scan_order, now, hostname_asns, df_migrations,
                   df_cloudflare_stats, to_cloudflare, from_cloudflare, migrations_df,
                   df_csv>>

\* The script ends, by returning or with the exception that left it; its
\* frames are gone with the process.
Exit ==
    /\ pc \in {"flow_diagram", "visualizations", "summary", "main_done", "raised",
              "csv_done", "top_ips_done"}
    /\ pc' = "idle"
    /\ hostname_asns' = {}
    /\ df_migrations' = <<>>
    /\ df_cloudflare_stats' = <<>>
    /\ to_cloudflare' = <<>>
    /\ from_cloudflare' = <<>>
    /\ hours' = 0
    /\ cutoff_time' = 0
    /\ migrations_df' = <<>>
    /\ stdout' = <<>>
    /\ conn' = NoConn
    /\ fault' = NoError
    /\ raised' = NoError
    /\ files' = {}
    /\ df_csv' = <<>>
    /\ df_time' = <<>>
    /\ df_summary' = <<>>
    /\ UNCHANGED <<dns_results, scan_order, now, db>>

Next ==
    \/ Ingest
    \/ Tick
    \/ GetCloudflareMigrations
    \/ CreateFlowDiagram
    \/ CreateVisualizations
    \/ PrintCloudflareSummary
    \/ GetAsnMigrations
    \/ MainReturn
    \/ GetCloudflareMigrationsRaises
    \/ MainRaises
    \/ GenerateCloudflareCsv
    \/ TopIpsMain
    \/ Exit

Spec == Init /\ [][Next]_vars
SpecBulk == InitBulk /\ [][Next]_vars

\* ======================================================================
\* The vocabulary of the specification (its section 3), defined on the
\* table alone: the usable observations of an entity and their maximal
\* same-attribute runs.  Runs are defined for observations with pairwise
\* distinct timestamps, where their order is not in question.
\* ======================================================================
RowsOf(h) == {r \in BagToSet(dns_results) : r.hostname = h}
UsableOf(h) == {r \in RowsOf(h) : r.success /\ r.asn # NULL}
DistinctTimes(S) == \A r1, r2 \in S : r1.timestamp = r2.timestamp => r1 = r2

\* r opens a run of S: the observation just before it, if any, carries
\* another attribute.  r closes a run: likewise for the one just after it.
OpensRun(S, r) ==
    \A p \in S :
        (p.timestamp < r.timestamp
         /\ ~\E x \in S : p.timestamp < x.timestamp /\ x.timestamp < r.timestamp)
            => p.asn # r.asn
ClosesRun(S, r) ==
    \A n \in S :
        (r.timestamp < n.timestamp
         /\ ~\E x \in S : r.timestamp < x.timestamp /\ x.timestamp < n.timestamp)
            => n.asn # r.asn

\* The maximal runs of S: each from an observation that opens a run to the
\* first one at or after it that closes a run.
RunIntervals(S) ==
    LET opens == {r \in S : OpensRun(S, r)}
        closes == {r \in S : ClosesRun(S, r)}
    IN {[asn |-> p[1].asn, start |-> p[1].timestamp, end |-> p[2].timestamp] :
          p \in {q \in opens \X closes :
                   /\ q[1].timestamp <= q[2].timestamp
                   /\ \A c \in closes :
                        q[1].timestamp <= c.timestamp
                            => q[2].timestamp <= c.timestamp}}

\* Pairs of temporally consecutive runs.
ConsecutiveRuns(S) ==
    LET runs == RunIntervals(S)
    IN {p \in runs \X runs :
          /\ p[1].end < p[2].start
          /\ ~\E i \in runs : p[1].end < i.start /\ i.end < p[2].start}

\* What the scripts hold.
CfLoaded == pc \in {"cf_loaded", "flow_diagram", "visualizations", "summary"}
SplitDone ==
    pc \in {"flow_diagram", "visualizations", "summary"} /\ Len(df_migrations) > 0
IntervalsOf(h) ==
    {[asn |-> i.asn, start |-> i.first_seen, end |-> i.last_seen] :
        i \in {x \in hostname_asns : x.hostname = h}}
CountFor(df, h) == Len(SelectSeq(df, LAMBDA m : m.hostname = h))
NumTransitions(k) == IF k >= 2 THEN k - 1 ELSE 0
SortedDescBy(df, Key(_)) ==
    \A i, j \in 1..Len(df) : i < j => Key(df[i]) >= Key(df[j])

\* The rows of h that get_asn_migrations reads, and the usable ones of them.
WindowRowsOf(h) == {r \in RowsOf(h) : r.timestamp > cutoff_time /\ r.asn # NULL}
UsableInWindow(h) == {r \in UsableOf(h) : r.timestamp > cutoff_time}

\* ----------------------------------------------------------------------
\* C1: every interval the hostname_asns grouping builds for an entity is a
\* maximal run of that entity's usable observations (start = first
\* observation of the run, end = last), one interval per run, so that
\* A, B, A gives three intervals.
C1_IntervalsAreMaximalRuns ==
    CfLoaded =>
        \A h \in Hostnames :
            DistinctTimes(UsableOf(h)) => IntervalsOf(h) = RunIntervals(UsableOf(h))

\* ----------------------------------------------------------------------
\* C2: the intervals of one entity do not overlap in time, and two
\* intervals of one entity with no third between them carry different
\* attributes.
Overlap(i1, i2) == i1.start < i2.end /\ i2.start < i1.end
C2_IntervalsDisjoint ==
    CfLoaded =>
        \A h \in Hostnames : \A i1, i2 \in IntervalsOf(h) :
            i1 # i2 =>
                /\ ~Overlap(i1, i2)
                /\ (i1.end <= i2.start
                    /\ ~\E i3 \in IntervalsOf(h) \ {i1, i2} :
                          i1.end <= i3.start /\ i3.end <= i2.start)
                   => i1.asn # i2.asn

\* ----------------------------------------------------------------------
\* C3 as stated: an entity whose usable in-window observations form k
\* maximal runs gets exactly k-1 transitions from get_asn_migrations (none
\* when k < 2), however many transitions the log holds.
C3_CountIsRunsMinusOne ==
    pc = "main" =>
        \A h \in Hostnames :
            DistinctTimes(UsableInWindow(h)) =>
                CountFor(migrations_df, h)
                    = NumTransitions(Cardinality(RunIntervals(UsableInWindow(h))))

\* C3 amended: over the rows get_asn_migrations reads for an entity
\* (timestamp after the cutoff, asn not NULL, successful or not), forming k
\* maximal runs, the entity gets at most k-1 transitions (none when k < 2),
\* and exactly that many whenever the call returns fewer than LIMIT rows.
C3_CountUnderLimit ==
    pc = "main" =>
        \A h \in Hostnames :
            DistinctTimes(WindowRowsOf(h)) =>
                LET n == NumTransitions(Cardinality(RunIntervals(WindowRowsOf(h))))
                IN /\ CountFor(migrations_df, h) <= n
                   /\ Len(migrations_df) < LIMIT => CountFor(migrations_df, h) = n

\* An entity with three runs in the window, and both transitions reported.
C3_Witness ==
    /\ pc = "main"
    /\ \E h \in Hostnames :
         /\ DistinctTimes(WindowRowsOf(h))
         /\ Cardinality(RunIntervals(WindowRowsOf(h))) = 3
         /\ CountFor(migrations_df, h) = 2

\* ----------------------------------------------------------------------
\* C4: the rows of the pivot query are exactly the transitions between
\* temporally consecutive runs of one entity that have the pivot on one
\* side.
PivotRunTransitions(h) ==
    {<<p[1].asn, p[2].asn, p[1].end, p[2].start>> :
        p \in {q \in ConsecutiveRuns(UsableOf(h)) :
                 q[1].asn = CLOUDFLARE_ASN \/ q[2].asn = CLOUDFLARE_ASN}}
C4_PivotQueryIsViewOfRuns ==
    CfLoaded =>
        \A h \in Hostnames :
            DistinctTimes(UsableOf(h)) =>
                {<<m.from_asn, m.to_asn, m.end_time, m.next_start_time>> :
                    m \in {x \in Range(df_migrations) : x.hostname = h}}
                = PivotRunTransitions(h)

\* ----------------------------------------------------------------------
\* C5: every row of the pivot query joins two intervals of one entity, has
\* from_asn # to_asn and next_start_time > end_time; no row has the pivot
\* on both sides.
C5_PivotRowsWellFormed ==
    CfLoaded =>
        \A i \in 1..Len(df_migrations) :
            LET m == df_migrations[i]
            IN /\ m.from_asn # m.to_asn
               /\ m.next_start_time > m.end_time
               /\ ~(m.from_asn = CLOUDFLARE_ASN /\ m.to_asn = CLOUDFLARE_ASN)
               /\ [hostname |-> m.hostname, asn |-> m.from_asn,
                   first_seen |-> m.start_time, last_seen |-> m.end_time]
                      \in hostname_asns
               /\ [hostname |-> m.hostname, asn |-> m.to_asn,
                   first_seen |-> m.next_start_time, last_seen |-> m.next_end_time]
                      \in hostname_asns

\* The pivot query returned a row although two intervals of the entity
\* touch at one instant.
C5_Witness ==
    /\ pc = "cf_loaded"
    /\ Len(df_migrations) > 0
    /\ \E i1, i2 \in hostname_asns :
         i1 # i2 /\ i1.hostname = i2.hostname /\ i1.last_seen = i2.first_seen

\* ----------------------------------------------------------------------
\* C6: every row of get_asn_migrations has from_asn # to_asn and its
\* to-side timestamp end_time strictly after its from-side timestamp
\* start_time.
C6_AsnRowsStrictlyLater ==
    pc = "main" =>
        \A i \in 1..Len(migrations_df) :
            /\ migrations_df[i].from_asn # migrations_df[i].to_asn
            /\ migrations_df[i].end_time > migrations_df[i].start_time

\* ----------------------------------------------------------------------
\* C7: an entity whose runs go A, B, A gets both A->B and B->A, from
\* get_asn_migrations and, when A or B is the pivot, from the pivot query.
ReturnsToPrevious(S, A, B) ==
    LET pairs == ConsecutiveRuns(S)
    IN \E p \in pairs, q \in pairs :
         /\ p[2] = q[1]
         /\ p[1].asn = A /\ p[2].asn = B /\ q[2].asn = A
HasTransition(df, h, A, B) ==
    \E i \in 1..Len(df) :
        df[i].hostname = h /\ df[i].from_asn = A /\ df[i].to_asn = B
C7_ReturnReportedTwice ==
    \A h \in Hostnames, A \in Asns, B \in Asns :
        /\ (/\ pc = "main"
            /\ WindowRowsOf(h) = UsableOf(h)
            /\ DistinctTimes(UsableOf(h))
            /\ ReturnsToPrevious(UsableOf(h), A, B)
            /\ Len(migrations_df) < LIMIT)
           => HasTransition(migrations_df, h, A, B)
              /\ HasTransition(migrations_df, h, B, A)
        /\ (/\ CfLoaded
            /\ DistinctTimes(UsableOf(h))
            /\ ReturnsToPrevious(UsableOf(h), A, B)
            /\ (A = CLOUDFLARE_ASN \/ B = CLOUDFLARE_ASN))
           => HasTransition(df_migrations, h, A, B)
              /\ HasTransition(df_migrations, h, B, A)

\* ----------------------------------------------------------------------
\* C8 as stated: both frames are ordered by the to-side start, descending
\* (next_start_time for the pivot query, end_time for get_asn_migrations).
C8_OrderedByToSideStart ==
    /\ CfLoaded => SortedDescBy(df_migrations, LAMBDA m : m.next_start_time)
    /\ pc = "main" => SortedDescBy(migrations_df, LAMBDA m : m.end_time)

\* C8 amended: both frames are ordered by start_time, descending: the start
\* of the from-side interval for the pivot query, the from-side observation
\* for get_asn_migrations.
C8_OrderedByStartTime ==
    /\ CfLoaded => SortedDescBy(df_migrations, LAMBDA m : m.start_time)
    /\ pc = "main" => SortedDescBy(migrations_df, LAMBDA m : m.start_time)

\* A frame of get_asn_migrations with rows of different start_time.
C8_Witness ==
    /\ pc = "main"
    /\ \E i, j \in 1..Len(migrations_df) :
         migrations_df[i].start_time > migrations_df[j].start_time

Neither == {m \in Range(df_migrations) :
              m.to_asn # CLOUDFLARE_ASN /\ m.from_asn # CLOUDFLARE_ASN}
C10_SplitIsPartition ==
    SplitDone =>
        /\ Range(to_cloudflare) \cap Range(from_cloudflare) = {}
        /\ Range(to_cloudflare) \cap Neither = {}
        /\ Range(from_cloudflare) \cap Neither = {}
        /\ Range(to_cloudflare) \cup Range(from_cloudflare) \cup Neither
             = Range(df_migrations)
        /\ Len(to_cloudflare) + Len(from_cloudflare) + Cardinality(Neither)
             = Len(df_migrations)
        /\ Len(df_migrations) = Cardinality(Range(df_migrations))

\* print_cloudflare_summary split a frame of several transitions, some on
\* each side of the pivot.
C10_Witness ==
    /\ pc = "summary"
    /\ Len(df_migrations) >= 2
    /\ Len(to_cloudflare) > 0
    /\ Len(from_cloudflare) > 0

\* ----------------------------------------------------------------------
\* C11: every row of get_asn_migrations takes its from side and its to side
\* from observations with timestamp strictly after the cutoff, and the
\* observations at or before the cutoff contribute nothing: the frame is
\* one the query returns on the table without them.
AfterCutoff(s, c) == SelectSeq(s, LAMBDA r : r.timestamp > c)
SuppliedBy(h, a, t, S) ==
    \E r \in S : r.hostname = h /\ r.asn = a /\ r.timestamp = t
C11_OnlyRowsAfterCutoff ==
    pc = "main" =>
        /\ \A i \in 1..Len(migrations_df) :
             LET m == migrations_df[i]
                 S == Range(AfterCutoff(scan_order, cutoff_time))
             IN /\ m.start_time > cutoff_time
                /\ m.end_time > cutoff_time
                /\ SuppliedBy(m.hostname, m.from_asn, m.start_time, S)
                /\ SuppliedBy(m.hostname, m.to_asn, m.end_time, S)
        /\ migrations_df
             \in AsnMigrationQuery(AfterCutoff(scan_order, cutoff_time), NullTime)

\* An entity has an observation stamped exactly with the cutoff, carrying
\* another asn than its next observation, and transitions after it; the
\* frame has none that starts at the cutoff.
C11_Witness ==
    /\ pc = "main"
    /\ \E r \in Range(scan_order), i \in 1..Len(migrations_df) :
         /\ r.timestamp = cutoff_time
         /\ r.asn # NULL
         /\ r.hostname = migrations_df[i].hostname
         /\ r.asn # migrations_df[i].from_asn
         /\ \A j \in 1..Len(migrations_df) :
              migrations_df[j].hostname = r.hostname
                 => migrations_df[j].start_time >= migrations_df[i].start_time

\* ----------------------------------------------------------------------
\* C12: window monotonicity.  main asks for the 48 hour window and then,
\* over the same table and at the same clock value, for the 72 hour window
\* with its earlier cutoff: every transition of the first frame is in the
\* second.
C12_WindowMonotone ==
    [][(pc = "main" /\ pc' = "main")
          => Range(migrations_df) \subseteq Range(migrations_df')]_vars

\* The 72 hour frame holds a transition the 48 hour frame had and one that
\* starts at or before the 48 hour cutoff.
C12_Witness ==
    /\ pc = "main"
    /\ hours = Windows[2]
    /\ \E i, j \in 1..Len(migrations_df) :
         /\ migrations_df[i].start_time > now - Windows[1]
         /\ migrations_df[j].start_time <= now - Windows[1]

\* ----------------------------------------------------------------------
\* C13: when no observation is stamped after the cutoff of a window,
\* get_asn_migrations returns an empty frame for it, main reports the
\* window as empty and goes on; the run ends with the completion line and
\* without an error line.
WindowsRun == IF pc = "main" /\ hours = Windows[1]
                THEN {Windows[1]} ELSE {Windows[1], Windows[2]}
NoMigrationsInLast(w) == Line("No migrations found in the last {hours} hours.", <<w>>)
FoundInPeriod(n) ==
    Line("Found {len(df)} migrations in the specified time period", <<n>>)
Completed == Line("DEBUG: Script completed successfully", <<>>)
C13_EmptyWindowIsNotAnError ==
    pc \in {"main", "main_done"} =>
        /\ \A w \in WindowsRun :
             AfterCutoff(scan_order, now - w) = <<>> =>
                /\ (pc = "main" /\ hours = w) => migrations_df = <<>>
                /\ \E k \in 1..Len(stdout) - 1 :
                     stdout[k] = FoundInPeriod(0) /\ stdout[k + 1] = NoMigrationsInLast(w)
        /\ pc = "main_done" => stdout[Len(stdout)] = Completed
        /\ \A k \in 1..Len(stdout) : stdout[k].text # "ERROR in main: {str(e)}"

\* main has completed over a table that holds usable observations, none of
\* them after the 48 hour cutoff.
C13_Witness ==
    /\ pc = "main_done"
    /\ \E r \in Range(scan_order) : r.asn # NULL /\ r.success
    /\ AfterCutoff(scan_order, now - Windows[1]) = <<>>
    /\ stdout[Len(stdout)] = Completed

\* ----------------------------------------------------------------------
\* C14: every step that finds nothing prints an explicit empty-result line
\* before it returns: an iteration of main whose window is empty,
\* create_migration_timeline and analyze_migrations on an empty frame,
\* create_visualizations and create_flow_diagram when there are no
\* migrations.
Printed(line) ==
    \E k \in (Len(stdout) + 1)..Len(stdout') : stdout'[k] = line
C14_NoSilentEmptyReturn ==
    [][/\ (pc \in {"idle", "main"} /\ pc' = "main" /\ Len(migrations_df') = 0)
            => Printed(NoMigrationsInLast(hours'))
       /\ CreateMigrationTimeline(<<>>) # <<>>
       /\ AnalyzeMigrations(<<>>) # <<>>
       /\ (pc = "cf_loaded" /\ pc' = "visualizations" /\ Len(df_migrations) = 0)
            => \/ Printed(Line("DEBUG: No Cloudflare-related migrations or activity found in the dataset", <<>>))
               \/ Printed(CreateIpFlowDiagram(<<>>)[1])
       /\ (pc = "cf_loaded" /\ pc' = "flow_diagram" /\ Len(df_migrations) = 0)
            => Len(stdout') > Len(stdout)
      ]_vars

\* ----------------------------------------------------------------------
\* C15: only successful observations contribute.  Every interval boundary
\* of hostname_asns and both sides of every row of get_asn_migrations are
\* supplied by an observation with success = TRUE, and a failed observation
\* changes nothing: intervals and frame are those of the table without the
\* failed rows.
Successful(s) == SelectSeq(s, LAMBDA r : r.success)
C15_OnlySuccessfulContribute ==
    LET ok == Range(Successful(scan_order))
    IN /\ CfLoaded =>
             /\ \A i \in hostname_asns :
                  /\ SuppliedBy(i.hostname, i.asn, i.first_seen, ok)
                  /\ SuppliedBy(i.hostname, i.asn, i.last_seen, ok)
             /\ hostname_asns = HostnameAsns(Where(dns_results, LAMBDA r : r.success))
       /\ pc = "main" =>
             /\ \A k \in 1..Len(migrations_df) :
                  LET m == migrations_df[k]
                  IN /\ SuppliedBy(m.hostname, m.from_asn, m.start_time, ok)
                     /\ SuppliedBy(m.hostname, m.to_asn, m.end_time, ok)
             /\ migrations_df \in AsnMigrationQuery(Successful(scan_order), cutoff_time)

\* The half of C15 that concerns get_cloudflare_migrations.
C15_PivotQueryPart ==
    CfLoaded =>
        /\ \A i \in hostname_asns :
             /\ SuppliedBy(i.hostname, i.asn, i.first_seen, Range(Successful(scan_order)))
             /\ SuppliedBy(i.hostname, i.asn, i.last_seen, Range(Successful(scan_order)))
        /\ hostname_asns = HostnameAsns(Where(dns_results, LAMBDA r : r.success))

\* ----------------------------------------------------------------------
\* C16: an observation with NULL asn is dropped and the run goes on.  No
\* interval and no side of a transition carries NULL, both scripts get the
\* frames of the table without the NULL rows, and an entity observed with
\* A, NULL, B in the window gets A->B and nothing else when A # B, and
\* nothing when A = B.
NotNull(s) == SelectSeq(s, LAMBDA r : r.asn # NULL)
AsnSeq(s) == [i \in DOMAIN s |-> s[i].asn]
Increasing(s) == \A i, j \in DOMAIN s : i < j => s[i].timestamp < s[j].timestamp
WindowOf(h) == PartitionBy(AfterCutoff(scan_order, cutoff_time), h)
C16_NullAsnIsSkipped ==
    /\ CfLoaded =>
         /\ \A i \in hostname_asns : i.asn # NULL
         /\ \A m \in Range(df_migrations) : m.from_asn # NULL /\ m.to_asn # NULL
         /\ hostname_asns = HostnameAsns(Where(dns_results, LAMBDA r : r.asn # NULL))
         /\ df_migrations
              \in MigrationQuery(Where(dns_results, LAMBDA r : r.asn # NULL),
                                 CLOUDFLARE_ASN)
    /\ pc = "main" =>
         /\ \A m \in Range(migrations_df) : m.from_asn # NULL /\ m.to_asn # NULL
         /\ migrations_df \in AsnMigrationQuery(NotNull(scan_order), cutoff_time)
         /\ \A h \in Hostnames, A \in Asns, B \in Asns :
              (AsnSeq(WindowOf(h)) = <<A, NULL, B>> /\ Increasing(WindowOf(h)))
                 => /\ CountFor(migrations_df, h) = (IF A = B THEN 0 ELSE 1)
                    /\ A # B => HasTransition(migrations_df, h, A, B)

\* An entity observed with A, NULL, B (A # B) in the window, and A->B
\* reported for it.
C16_Witness ==
    /\ pc = "main"
    /\ \E h \in Hostnames, A \in Asns, B \in Asns :
         /\ A # B
         /\ AsnSeq(WindowOf(h)) = <<A, NULL, B>>
         /\ Increasing(WindowOf(h))
         /\ HasTransition(migrations_df, h, A, B)

\* ----------------------------------------------------------------------
\* C17 as stated: entities are processed independently.  What either query
\* reports for an entity is what it reports on the table holding that
\* entity's observations alone, and both sides of every transition are
\* observations (intervals) of the entity the transition names.
RowsFor(df, h) == SelectSeq(df, LAMBDA m : m.hostname = h)
NoJoinAcrossEntities ==
    /\ CfLoaded =>
         \A m \in Range(df_migrations) :
            /\ [hostname |-> m.hostname, asn |-> m.from_asn,
                first_seen |-> m.start_time, last_seen |-> m.end_time]
                   \in HostnameAsns(Where(dns_results, LAMBDA r : r.hostname = m.hostname))
            /\ [hostname |-> m.hostname, asn |-> m.to_asn,
                first_seen |-> m.next_start_time, last_seen |-> m.next_end_time]
                   \in HostnameAsns(Where(dns_results, LAMBDA r : r.hostname = m.hostname))
    /\ pc = "main" =>
         \A m \in Range(migrations_df) :
            /\ SuppliedBy(m.hostname, m.from_asn, m.start_time, Range(scan_order))
            /\ SuppliedBy(m.hostname, m.to_asn, m.end_time, Range(scan_order))
PivotQueryIndependent ==
    CfLoaded =>
        \A h \in Hostnames :
            RowsFor(df_migrations, h)
                \in MigrationQuery(Where(dns_results, LAMBDA r : r.hostname = h),
                                   CLOUDFLARE_ASN)
C17_EntitiesIndependent ==
    /\ PivotQueryIndependent
    /\ NoJoinAcrossEntities
    /\ pc = "main" =>
         \A h \in Hostnames :
            RowsFor(migrations_df, h)
                \in AsnMigrationQuery(PartitionBy(scan_order, h), cutoff_time)

\* C17 amended: the same for get_cloudflare_migrations, and for
\* get_asn_migrations whenever it returns fewer than LIMIT rows.  LIMIT is
\* applied across all entities: when it is reached, other entities can
\* remove transitions of an entity from the frame, but what is reported
\* for the entity is still among what it gets alone.
C17_IndependentUnderLimit ==
    /\ PivotQueryIndependent
    /\ NoJoinAcrossEntities
    /\ pc = "main" =>
         \A h \in Hostnames :
            LET alone == AsnMigrationQuery(PartitionBy(scan_order, h), cutoff_time)
            IN /\ Len(migrations_df) < LIMIT => RowsFor(migrations_df, h) \in alone
               /\ \E f \in alone : Range(RowsFor(migrations_df, h)) \subseteq Range(f)

\* An entity has a transition in the frame, and the other entity has an
\* observation with another asn between the two sides of it.
C17_Witness ==
    /\ pc = "main"
    /\ \E m \in Range(migrations_df), r \in Range(InWindow(scan_order, cutoff_time)) :
         /\ r.hostname # m.hostname
         /\ m.start_time < r.timestamp
         /\ r.timestamp < m.end_time
         /\ r.asn # m.from_asn
         /\ r.asn # m.to_asn

\* ----------------------------------------------------------------------
\* C18: an entity whose usable observations all carry one asn has exactly
\* one interval, from its first usable observation to its last, and no
\* transition in either frame, whatever their number and timestamps.
AllCarry(S, A) == S # {} /\ \A r \in S : r.asn = A
C18_SingleValueEntity ==
    \A h \in Hostnames, A \in Asns :
        /\ (CfLoaded /\ AllCarry(UsableOf(h), A))
             => /\ IntervalsOf(h)
                     = {[asn |-> A,
                         start |-> Min({r.timestamp : r \in UsableOf(h)}),
                         end |-> Max({r.timestamp : r \in UsableOf(h)})]}
                /\ CountFor(df_migrations, h) = 0
        /\ (pc = "main" /\ AllCarry(UsableInWindow(h), A))
             => CountFor(migrations_df, h) = 0

\* ----------------------------------------------------------------------
\* C19: an entity observed with A at t1 < ... < tm and then with B at
\* u1 < ... < un (tm < u1, A # B) has the two intervals [t1,tm]@A and
\* [u1,un]@B in hostname_asns.  Its one transition A->B is the only row it
\* has in the frame of get_asn_migrations when its observations lie in the
\* window, anchored at start_time = tm, end_time = u1; the pivot query is
\* the view of it: that one row, anchored at end_time = tm,
\* next_start_time = u1, when A or B is the pivot, and no row otherwise.
Times(h, A) == {r.timestamp : r \in {x \in RowsOf(h) : x.asn = A}}
FirstThenSecond(h, A, B) ==
    /\ A # B
    /\ RowsOf(h) = UsableOf(h)
    /\ DistinctTimes(RowsOf(h))
    /\ \A r \in RowsOf(h) : r.asn \in {A, B}
    /\ Times(h, A) # {}
    /\ Times(h, B) # {}
    /\ Max(Times(h, A)) < Min(Times(h, B))
C19_OneChangeOneTransition ==
    \A h \in Hostnames, A \in Asns, B \in Asns :
        FirstThenSecond(h, A, B) =>
            LET t1 == Min(Times(h, A))
                tm == Max(Times(h, A))
                u1 == Min(Times(h, B))
                un == Max(Times(h, B))
            IN /\ CfLoaded =>
                    /\ IntervalsOf(h) = {[asn |-> A, start |-> t1, end |-> tm],
                                         [asn |-> B, start |-> u1, end |-> un]}
                    /\ RowsFor(df_migrations, h)
                         = IF A = CLOUDFLARE_ASN \/ B = CLOUDFLARE_ASN
                             THEN <<[hostname |-> h, from_asn |-> A, to_asn |-> B,
                                     start_time |-> t1, end_time |-> tm,
                                     next_start_time |-> u1, next_end_time |-> un]>>
                             ELSE <<>>
               /\ (pc = "main" /\ WindowRowsOf(h) = RowsOf(h)) =>
                    RowsFor(migrations_df, h)
                        = <<[hostname |-> h, from_asn |-> A, to_asn |-> B,
                             start_time |-> tm, end_time |-> u1]>>

\* get_asn_migrations has reported the transition of an entity that was
\* seen with one asn at two instants and then with another.
C19_Witness ==
    /\ pc = "main"
    /\ \E h \in Hostnames, A \in Asns, B \in Asns :
         /\ FirstThenSecond(h, A, B)
         /\ WindowRowsOf(h) = RowsOf(h)
         /\ Cardinality(Times(h, A)) >= 2
         /\ HasTransition(migrations_df, h, A, B)

\* ----------------------------------------------------------------------
\* C20: interval merging is idempotent.  Replace every interval of
\* hostname_asns by its two boundary observations, (hostname, asn,
\* first_seen) and (hostname, asn, last_seen), and build hostname_asns from
\* them: the result is the same set of intervals.
BoundaryObservations(ivs) ==
    SetToBag({[hostname |-> i.hostname, asn |-> i.asn,
               timestamp |-> i.first_seen, success |-> TRUE] : i \in ivs}
             \cup
             {[hostname |-> i.hostname, asn |-> i.asn,
               timestamp |-> i.last_seen, success |-> TRUE] : i \in ivs})
C20_MergingIsIdempotent ==
    CfLoaded => HostnameAsns(BoundaryObservations(hostname_asns)) = hostname_asns

\* An interval that merged more than its two boundary observations.
C20_Witness ==
    /\ CfLoaded
    /\ \E i \in hostname_asns :
         \E r \in UsableOf(i.hostname) :
            /\ r.asn = i.asn
            /\ i.first_seen < r.timestamp
            /\ r.timestamp < i.last_seen

\* ======================================================================
\* Store failures, connections and the other scripts.
\* ======================================================================
LastLine == IF Len(stdout) = 0 THEN Line("", <<>>) ELSE stdout[Len(stdout)]
ErrorInGetCloudflareMigrations ==
    Line("ERROR in get_cloudflare_migrations: {str(e)}", <<>>)
ErrorInMain == Line("ERROR in main: {str(e)}", <<>>)

\* C21: a store failure in get_cloudflare_migrations or in main of
\* analyze_asn_migrations is fatal and not retried.  The step in which the
\* store raises ends the run in the handler: the exception that leaves the
\* function is the one the store raised, no frame is returned (those of
\* get_cloudflare_migrations stay unassigned, main's frame is not replaced),
\* and from there the only step is the end of the process: no further query,
\* no further window.
C21_StoreFailureIsFatal ==
    [][/\ (pc # "raised" /\ pc' = "raised")
            => /\ fault' \in {ConnectError, QueryError}
               /\ raised' = fault'
               /\ LastLine' \in {ErrorInGetCloudflareMigrations, ErrorInMain}
               /\ hostname_asns' = {}
               /\ df_migrations' = <<>>
               /\ df_cloudflare_stats' = <<>>
               /\ migrations_df' = migrations_df
               /\ files' = files
       /\ pc = "raised"
            => /\ pc' = "idle"
               /\ stdout' = <<>>]_vars

\* A query of main's first window raised on the open connection, with rows
\* in the table.
C21_Witness ==
    /\ pc = "raised"
    /\ fault = QueryError
    /\ raised = QueryError
    /\ conn.opens = 1
    /\ LastLine = ErrorInMain
    /\ hours = Windows[1]
    /\ BagCardinality(dns_results) > 0

\* C22: derivation is recomputed from scratch.  Whatever ran before, the
\* frame a call holds has the same rows as every frame the same query can
\* return on the table as it stands with the same cutoff (the frames differ
\* at most in the order of rows of equal sort key): a second invocation on
\* the same snapshot returns the same transitions, also when observations of
\* one entity share a timestamp.
SameRows(f, g) == Len(f) = Len(g) /\ Range(f) = Range(g)
C23_PivotFilterHasNoSideEffect ==
    [][(pc = "cf_loaded" /\ pc' \in {"flow_diagram", "summary"})
          => df_migrations' = df_migrations]_vars

\* The split was done on a frame with rows on both sides of the pivot, and
\* the caller still holds all of them.
C23_Witness ==
    /\ pc \in {"flow_diagram", "summary"}
    /\ Len(to_cloudflare) > 0
    /\ Len(from_cloudflare) > 0
    /\ Len(df_migrations) = Len(to_cloudflare) + Len(from_cloudflare)

\* C24: a run of main is all-or-nothing.  A run that completed has reported
\* a result for the 48 h window and then for the 72 h window; a run that
\* failed has reported the result of no window and saved no timeline.
WindowsReported ==
    {stdout[k].args[1] :
       k \in {j \in 1..Len(stdout) - 1 :
                /\ stdout[j].text = "Analyzing migrations for the last {hours} hours:"
                /\ stdout[j + 1].text =
                       "Found {len(df)} migrations in the specified time period"}}
C24_MainIsAllOrNothing ==
    /\ pc = "main_done" => WindowsReported = {Windows[1], Windows[2]}
    /\ (pc = "raised" /\ LastLine = ErrorInMain)
         => WindowsReported = {} /\ files = {}

\* C25: get_asn_migrations returns at most 50 transitions over all entities
\* together, and when the window holds more, the 50 of greatest start_time:
\* every transition of the window that is not returned starts no later than
\* every one that is.
WindowTransitions ==
    SelectSeq(Changes(InWindow(scan_order, cutoff_time), Hostnames), IsMigration)
C25_FiftyLatestTransitions ==
    pc = "main" =>
        /\ Len(migrations_df) <= LIMIT
        /\ Len(migrations_df) =
               (IF Len(WindowTransitions) < LIMIT THEN Len(WindowTransitions) ELSE LIMIT)
        /\ Range(migrations_df) \subseteq Range(WindowTransitions)
        /\ \A dropped \in Range(WindowTransitions) \ Range(migrations_df) :
             \A kept \in Range(migrations_df) :
                 kept.start_time >= dropped.start_time

\* A window with more than 50 transitions, of two entities, cut to 50.
C25_Witness ==
    /\ pc = "main"
    /\ Len(WindowTransitions) > LIMIT
    /\ Len(migrations_df) = LIMIT
    /\ Cardinality({migrations_df[i].hostname : i \in 1..Len(migrations_df)}) = 2
    /\ Range(WindowTransitions) \ Range(migrations_df) # {}

\* C26: the pivot query keeps one interval per (hostname, asn), from the
\* earliest to the latest successful observation of the pair, and returns
\* exactly one row for every ordered pair of intervals of one hostname with
\* different asn, the second beginning after the first has ended, and the
\* pivot on one side.  A hostname with n distinct ASNs yields at most n - 1
\* rows into the pivot and at most n - 1 out of it, and no two rows agree
\* on (hostname, from_asn, to_asn).
SuccessfulTimes(h, a) ==
    {r.timestamp : r \in {x \in BagToSet(dns_results) :
                            x.success /\ x.hostname = h /\ x.asn = a}}
PairsSeen == {<<h, a>> \in Hostnames \X Asns : SuccessfulTimes(h, a) # {}}
AsnsSeen(h) == {a \in Asns : <<h, a>> \in PairsSeen}
PivotPairRows ==
    {[hostname |-> h, from_asn |-> a, to_asn |-> b,
      start_time |-> Min(SuccessfulTimes(h, a)),
      end_time |-> Max(SuccessfulTimes(h, a)),
      next_start_time |-> Min(SuccessfulTimes(h, b)),
      next_end_time |-> Max(SuccessfulTimes(h, b))] :
        <<h, a, b>> \in {t \in Hostnames \X Asns \X Asns :
                           /\ <<t[1], t[2]>> \in PairsSeen
                           /\ <<t[1], t[3]>> \in PairsSeen
                           /\ t[2] # t[3]
                           /\ Min(SuccessfulTimes(t[1], t[3])) >
                                  Max(SuccessfulTimes(t[1], t[2]))
                           /\ (t[2] = CLOUDFLARE_ASN \/ t[3] = CLOUDFLARE_ASN)}}
C26_PivotQueryPairsIntervals ==
    CfLoaded =>
        /\ {<<i.hostname, i.asn>> : i \in hostname_asns} = PairsSeen
        /\ \A i \in hostname_asns :
             /\ i.first_seen = Min(SuccessfulTimes(i.hostname, i.asn))
             /\ i.last_seen = Max(SuccessfulTimes(i.hostname, i.asn))
        /\ Cardinality(hostname_asns) = Cardinality(PairsSeen)
        /\ Range(df_migrations) = PivotPairRows
        /\ \A i, j \in 1..Len(df_migrations) :
             (/\ df_migrations[i].hostname = df_migrations[j].hostname
              /\ df_migrations[i].from_asn = df_migrations[j].from_asn
              /\ df_migrations[i].to_asn = df_migrations[j].to_asn) => i = j
        /\ \A h \in Hostnames :
             AsnsSeen(h) # {} =>
                /\ Len(SelectSeq(ToCloudflare(df_migrations),
                                 LAMBDA m : m.hostname = h))
                       <= Cardinality(AsnsSeen(h)) - 1
                /\ Len(SelectSeq(FromCloudflare(df_migrations),
                                 LAMBDA m : m.hostname = h))
                       <= Cardinality(AsnsSeen(h)) - 1

\* A hostname seen on three networks, the pivot last: two rows into the
\* pivot, the bound n - 1.
C26_Witness ==
    /\ CfLoaded
    /\ \E h \in Hostnames :
         /\ Cardinality(AsnsSeen(h)) = 3
         /\ Len(SelectSeq(ToCloudflare(df_migrations), LAMBDA m : m.hostname = h)) = 2

\* C27: with both frames from one call of get_cloudflare_migrations, every
\* hostname of a migration row is a hostname of df_cloudflare_stats, so the
\* recent_hostnames restriction of create_flow_diagram and of
\* print_cloudflare_summary removes no migration: the two sides of the
\* split are those of the whole frame.
HostnamesOf(frame) == {frame[i].hostname : i \in 1..Len(frame)}
C27_RestrictionRemovesNothing ==
    /\ CfLoaded =>
         /\ HostnamesOf(df_migrations) \subseteq HostnamesOf(df_cloudflare_stats)
         /\ IsIn(df_migrations, RecentHostnames(df_cloudflare_stats)) = df_migrations
    /\ SplitDone =>
         /\ to_cloudflare = ToCloudflare(df_migrations)
         /\ from_cloudflare = FromCloudflare(df_migrations)

\* The restriction was applied to a frame with a migration into the pivot
\* and one out of it, and both came through.
C27_Witness ==
    /\ SplitDone
    /\ Len(df_migrations) = 2
    /\ HostnamesOf(df_migrations) = HostnamesOf(df_cloudflare_stats)
    /\ Len(to_cloudflare) = 1
    /\ Len(from_cloudflare) = 1

\* C28: in analyze_asn_migrations a connection that get_cloudflare_migrations
\* or main has opened is closed on every exit path of that function, the
\* raising ones included: once the function has returned or raised, every
\* connection it opened has been closed.
FunctionExited ==
    pc \in {"cf_loaded", "flow_diagram", "visualizations", "summary",
            "main_done", "raised"}
C28_ConnectionClosedOnEveryExit ==
    FunctionExited => conn.closes = conn.opens

\* C29: generate_cloudflare_csv does not open the store when the database
\* file is missing; a connection it has opened is closed exactly once before
\* it returns, whether the CSV was written, the result was empty, the
\* database failed or something else did; and it writes a CSV file only
\* when the query returned at least one row.
C29_CsvClosesWhatItOpens ==
    [][(pc = "idle" /\ pc' = "csv_done")
          => /\ db = "missing" => (conn'.opens = 0 /\ db' = "missing")
             /\ conn'.opens <= 1
             /\ conn'.closes = conn'.opens
             /\ raised' = NoError
             /\ files' # {} => (Len(df_csv') > 0 /\ fault' = NoError)
             /\ CloudflareCsvQuery(dns_results) = {<<>>} => files' = {}]_vars

\* The query failed on an open connection, with Cloudflare rows in the
\* table: the connection was closed once and no file was written.
C29_Witness ==
    /\ pc = "csv_done"
    /\ fault = QueryError
    /\ conn = [opens |-> 1, closes |-> 1]
    /\ files = {}
    /\ \E r \in BagToSet(dns_results) : r.asn = CLOUDFLARE_ASN

\* C30: get_data of analyze_top_ips never raises.  When the store fails at
\* the connect or in a query it returns two empty frames; main then reports
\* "No data found" and creates no visualization, which is also how a run
\* over a window without observations ends: the same frames, the same last
\* line, no file, no exception.
NoDataFound(h) == Line("No data found for the past {hours} hours", <<h>>)
C30_StoreFailureReadsAsNoData ==
    pc = "top_ips_done" =>
        /\ raised = NoError
        /\ (fault # NoError \/ RowsAfter(dns_results, now - hours) = EmptyBag)
             => /\ df_time = <<>>
                /\ df_summary = <<>>
                /\ LastLine = NoDataFound(hours)
                /\ files = {}

\* A query failed with observations in the window, and the run ended as
\* one over an empty window does.
C30_Witness ==
    /\ pc = "top_ips_done"
    /\ fault = QueryError
    /\ RowsAfter(dns_results, now - hours) # EmptyBag
    /\ LastLine = NoDataFound(hours)
    /\ files = {}

====
